---- MODULE Spec2Model ----
(***************************************************************************)
(* Model of the Core interpreter of src/Parser.py: the recursive descent   *)
(* parser, the semantic pass (semantics) and the executor (execute) over   *)
(* the scope_tree chain, driven as in src/Main.py.                         *)
(***************************************************************************)
EXTENDS Integers, Sequences, FiniteSets, TLC

(***************************************************************************)
(* Bounds of the model.                                                    *)
(***************************************************************************)
\* number of statement snippets composed into one generated program
MaxSnippets == 2
\* executed statements after which a run is no longer followed
MaxSteps == 24

(***************************************************************************)
(* Python values.  k is the Python type: "none", "int", "str", "bool";     *)
(* "exit" is a pending sys.exit and "raise" an uncaught exception, with     *)
(* the error kind in s.                                                    *)
(***************************************************************************)
None == [k |-> "none", i |-> 0, s |-> <<>>]
IntV(n) == [k |-> "int", i |-> n, s |-> <<>>]
StrV(cs) == [k |-> "str", i |-> 0, s |-> cs]
BoolV(b) == [k |-> "bool", i |-> IF b THEN 1 ELSE 0, s |-> <<>>]
ExitV(kind) == [k |-> "exit", i |-> 0, s |-> <<kind>>]
RaiseV(kind) == [k |-> "raise", i |-> 0, s |-> <<kind>>]
IsErr(v) == v.k \in {"exit", "raise"}

(***************************************************************************)
(* Tokens of the scanner (Core enum): t is the kind, id the name of an ID  *)
(* token, c the value of a CONST token.                                    *)
(***************************************************************************)
K(kind) == [t |-> kind, id |-> "", c |-> 0]
V(name) == [t |-> "ID", id |-> name, c |-> 0]
N(n) == [t |-> "CONST", id |-> "", c |-> n]

(***************************************************************************)
(* Parse tree nodes.  type is the class of the node ("Token" for a Token   *)
(* enum member kept in nodes, "name" for the string Id keeps, "const" for  *)
(* the value Const keeps); nodes is self.nodes; nid identifies an If or    *)
(* While object (the position of its first token), 0 otherwise.            *)
(***************************************************************************)
Node(type, nodes, nid) == [type |-> type, nodes |-> nodes, v |-> "", c |-> 0, nid |-> nid]
TokNode(kind) == [type |-> "Token", nodes |-> <<>>, v |-> kind, c |-> 0, nid |-> 0]
NameNode(name) == [type |-> "name", nodes |-> <<>>, v |-> name, c |-> 0, nid |-> 0]
ConstNode(n) == [type |-> "const", nodes |-> <<>>, v |-> "", c |-> n, nid |-> 0]
IsTok(n, kind) == n.type = "Token" /\ n.v = kind

VARIABLES
  tokens,        \* the token stream of the scanner
  text,          \* the content of the data file, a sequence of characters
  phase,         \* where Main is: "init", "parsed", "check", "checked", "exec", "done"
  halt,          \* "" while running, "exit" after sys.exit, "raise" after an uncaught exception
  err,           \* the kind of error that ended the run, "" when none
  tree,          \* parser.tree: the Program node
  heap,          \* every scope_tree object created so far: [dict, child]
  global_scope,  \* parser.global_scope (a heap index)
  program_scope, \* parser.tree.program_scope (a heap index)
  local,         \* self.local of every If and While node: nid -> heap index
  data,          \* parser.data
  out,           \* the lines printed so far
  stack,         \* the work still to do in the running pass, innermost first
  checks,        \* how many times Program.semantics has been started
  steps,         \* statements executed so far
  entry,         \* history: the heap as it was when each If / While was last executed
  iters          \* history: how often the body of each While was started since then

vars == <<tokens, text, phase, halt, err, tree, heap, global_scope, program_scope,
          local, data, out, stack, checks, steps, entry, iters>>

(***************************************************************************)
(* Parser: one operator per parse method.  A parse result is               *)
(* [ok, p, nodes] while inside a method (p the scanner position, nodes the *)
(* list built so far) and [ok, p, n] for a finished child.                 *)
(***************************************************************************)
\* Parser.token: the scanner yields ERROR once the input is exhausted
token(p) == IF p > Len(tokens) THEN K("ERROR") ELSE tokens[p]

\* the state of a parse: ok until a sys.exit, p the position of the scanner, nodes the
\* self.nodes built so far; bad marks the sys.exit of line 339 of StmtSeq.parse
Begin(p) == [ok |-> TRUE, p |-> p, nodes |-> <<>>, bad |-> FALSE]
Fail(p) == [ok |-> FALSE, p |-> p, nodes |-> <<>>, bad |-> FALSE]

\* Parser.token_validate
token_validate(p, expected) == token(p).t = expected

\* Parser.token_assert
token_assert(st, expected) ==
  IF ~st.ok THEN st
  ELSE IF ~token_validate(st.p, expected) THEN Fail(st.p)
  ELSE [ok |-> TRUE, p |-> st.p + 1, nodes |-> Append(st.nodes, TokNode(expected)),
        bad |-> FALSE]

\* self.nodes.append(X()); self.nodes[-1].parse(parser)
Child(st, r) ==
  IF ~st.ok THEN st
  ELSE IF ~r.ok THEN [Fail(r.p) EXCEPT !.bad = r.bad]
  ELSE [ok |-> TRUE, p |-> r.p, nodes |-> Append(st.nodes, r.n), bad |-> FALSE]

Done(type, nid, st) ==
  [ok |-> st.ok, p |-> st.p, n |-> Node(type, st.nodes, nid), bad |-> st.bad]

RECURSIVE IdListParse(_), DeclSeqParse(_), StmtSeqParse(_), ExprParse(_), TermParse(_),
          CondParse(_), expr_paren_parse(_), cond_paren_parse(_)

\* Id.parse
IdParse(p) ==
  IF ~token_validate(p, "ID") THEN Done("Id", 0, Fail(p))
  ELSE Done("Id", 0, [ok |-> TRUE, p |-> p + 1,
                      nodes |-> <<TokNode("ID"), NameNode(token(p).id)>>, bad |-> FALSE])

\* Const.parse
ConstParse(p) ==
  IF ~token_validate(p, "CONST") THEN Done("Const", 0, Fail(p))
  ELSE Done("Const", 0, [ok |-> TRUE, p |-> p + 1, nodes |-> <<ConstNode(token(p).c)>>,
                         bad |-> FALSE])

\* self.nodes.append(Id()); self.nodes[-1].parse(parser), and so on for each class
IdThen(st) == IF st.ok THEN Child(st, IdParse(st.p)) ELSE st
ConstThen(st) == IF st.ok THEN Child(st, ConstParse(st.p)) ELSE st
IdListThen(st) == IF st.ok THEN Child(st, IdListParse(st.p)) ELSE st
DeclSeqThen(st) == IF st.ok THEN Child(st, DeclSeqParse(st.p)) ELSE st
StmtSeqThen(st) == IF st.ok THEN Child(st, StmtSeqParse(st.p)) ELSE st
ExprThen(st) == IF st.ok THEN Child(st, ExprParse(st.p)) ELSE st
TermThen(st) == IF st.ok THEN Child(st, TermParse(st.p)) ELSE st
CondThen(st) == IF st.ok THEN Child(st, CondParse(st.p)) ELSE st

\* IdList.parse
IdListMore(st) ==
  IF st.ok /\ token(st.p).t = "COMMA" THEN IdListThen(token_assert(st, "COMMA")) ELSE st
IdListParse(p) == Done("IdList", 0, IdListMore(IdThen(Begin(p))))

\* Decl.parse
DeclParse(p) ==
  Done("Decl", 0, token_assert(IdListThen(token_assert(Begin(p), "INT")), "SEMICOLON"))
DeclThen(st) == IF st.ok THEN Child(st, DeclParse(st.p)) ELSE st

\* DeclSeq.parse
DeclSeqMore(st) == IF st.ok /\ token(st.p).t # "BEGIN" THEN DeclSeqThen(st) ELSE st
DeclSeqParse(p) == Done("DeclSeq", 0, DeclSeqMore(DeclThen(Begin(p))))

\* Factor.expr_paren_parse appends to the nodes of the Factor it is called on
ExprParenMore(st) ==
  IF st.ok /\ token(st.p).t = "LPAREN" THEN expr_paren_parse(st) ELSE st
expr_paren_parse(st) ==
  token_assert(ExprParenMore(ExprThen(token_assert(st, "LPAREN"))), "RPAREN")

\* Factor.parse
FactorParse(p) ==
  CASE token(p).t = "ID" -> Done("Factor", 0, IdThen(Begin(p)))
    [] token(p).t = "CONST" -> Done("Factor", 0, ConstThen(Begin(p)))
    [] token(p).t = "LPAREN" -> Done("Factor", 0, expr_paren_parse(Begin(p)))
    [] OTHER -> Done("Factor", 0, Fail(p))
FactorThen(st) == IF st.ok THEN Child(st, FactorParse(st.p)) ELSE st

\* Term.parse
TermMore(st) ==
  IF st.ok /\ token(st.p).t = "MULT" THEN TermThen(token_assert(st, "MULT")) ELSE st
TermParse(p) == Done("Term", 0, TermMore(FactorThen(Begin(p))))

\* Expr.parse
ExprMore(st) ==
  IF st.ok /\ token(st.p).t = "ADD" THEN ExprThen(token_assert(st, "ADD"))
  ELSE IF st.ok /\ token(st.p).t = "SUB" THEN ExprThen(token_assert(st, "SUB"))
  ELSE st
ExprParse(p) == Done("Expr", 0, ExprMore(TermThen(Begin(p))))

\* Cmpr.parse: the operator is consumed when it is one of the three, and the
\* second Expr is parsed in every case
CmprOp(st) ==
  IF st.ok /\ token(st.p).t = "EQUAL" THEN token_assert(st, "EQUAL")
  ELSE IF st.ok /\ token(st.p).t = "LESS" THEN token_assert(st, "LESS")
  ELSE IF st.ok /\ token(st.p).t = "LESSEQUAL" THEN token_assert(st, "LESSEQUAL")
  ELSE st
CmprParse(p) == Done("Cmpr", 0, ExprThen(CmprOp(ExprThen(Begin(p)))))
CmprThen(st) == IF st.ok THEN Child(st, CmprParse(st.p)) ELSE st

\* Cond.cond_paren_parse appends to the nodes of the Cond it is called on
CondParenMore(st) ==
  IF st.ok /\ token(st.p).t = "LPAREN" THEN cond_paren_parse(st) ELSE st
cond_paren_parse(st) ==
  token_assert(CondParenMore(CondThen(token_assert(st, "LPAREN"))), "RPAREN")

\* Cond.parse
CondMore(st) ==
  IF st.ok /\ token(st.p).t = "OR" THEN CondThen(token_assert(st, "OR")) ELSE st
CondParse(p) ==
  IF token(p).t = "NEGATION"
  THEN Done("Cond", 0, cond_paren_parse(token_assert(Begin(p), "NEGATION")))
  ELSE Done("Cond", 0, CondMore(CmprThen(Begin(p))))

\* Assign.parse
AssignParse(p) ==
  Done("Assign", 0,
       token_assert(ExprThen(token_assert(IdThen(Begin(p)), "ASSIGN")), "SEMICOLON"))

\* Input.parse
InputParse(p) ==
  Done("Input", 0, token_assert(IdThen(token_assert(Begin(p), "INPUT")), "SEMICOLON"))

\* Output.parse
OutputParse(p) ==
  Done("Output", 0, token_assert(ExprThen(token_assert(Begin(p), "OUTPUT")), "SEMICOLON"))

\* If.parse
IfElse(st) ==
  IF st.ok /\ token(st.p).t = "ELSE" THEN StmtSeqThen(token_assert(st, "ELSE")) ELSE st
IfParse(p) ==
  Done("If", p,
       token_assert(
         IfElse(StmtSeqThen(token_assert(CondThen(token_assert(Begin(p), "IF")), "THEN"))),
         "ENDIF"))

\* While.parse
WhileParse(p) ==
  Done("While", p,
       token_assert(
         StmtSeqThen(token_assert(CondThen(token_assert(Begin(p), "WHILE")), "BEGIN")),
         "ENDWHILE"))

\* StmtSeq.parse
StmtParse(p) ==
  CASE token(p).t = "ID" -> AssignParse(p)
    [] token(p).t = "INPUT" -> InputParse(p)
    [] token(p).t = "OUTPUT" -> OutputParse(p)
    [] token(p).t = "IF" -> IfParse(p)
    [] token(p).t = "WHILE" -> WhileParse(p)
    [] token(p).t = "INT" -> DeclParse(p)
    [] OTHER -> [ok |-> FALSE, p |-> p, n |-> TokNode("ERROR"), bad |-> TRUE]
StmtSeqMore(st) ==
  IF st.ok /\ token(st.p).t \notin {"END", "ENDIF", "ENDWHILE", "ELSE"}
  THEN StmtSeqThen(st) ELSE st
StmtSeqParse(p) == Done("StmtSeq", 0, StmtSeqMore(Child(Begin(p), StmtParse(p))))

\* how the else branch of StmtSeq.parse ends the run: the argument of its sys.exit calls
\* parser.scanner.token() first, and the Scanner class is not part of the source; a
\* Scanner without a method token gives an uncaught AttributeError, one with it the exit
BadStart == {RaiseV("AttributeError"), ExitV("UnexpectedToken")}

\* Program.parse
ProgramEnd(st) == IF st.ok /\ token(st.p).t # "ERROR" THEN Fail(st.p) ELSE st
ProgramParse ==
  Done("Program", 0,
       ProgramEnd(token_assert(
         StmtSeqThen(token_assert(DeclSeqThen(token_assert(Begin(1), "PROGRAM")), "BEGIN")),
         "END")))

(***************************************************************************)
(* scope_tree objects and Parser.dfs_scope.  A frame is [dict, child];     *)
(* child is a heap index, 0 for None.                                      *)
(***************************************************************************)
EmptyDict == [x \in {} |-> None]
scope_tree == [dict |-> EmptyDict, child |-> 0]

\* d[name] = val
DictSet(d, name, val) == [x \in DOMAIN d \cup {name} |-> IF x = name THEN val ELSE d[x]]
\* h[f].dict[name] = val
FrameSet(h, f, name, val) == [h EXCEPT ![f].dict = DictSet(@, name, val)]
\* h[f].child = c
Attach(h, f, c) == [h EXCEPT ![f].child = c]

RECURSIVE dfs_scopeOuter(_, _, _)
\* a search that stops at the first frame from the root that contains var
dfs_scopeOuter(h, f, var) ==
  IF var \in DOMAIN h[f].dict THEN f
  ELSE IF h[f].child # 0 THEN dfs_scopeOuter(h, h[f].child, var)
  ELSE 0

RECURSIVE dfs_scope(_, _, _)
dfs_scope(h, f, var) ==
  LET sub == IF h[f].child # 0 THEN dfs_scope(h, h[f].child, var) ELSE 0
  IN IF sub # 0 /\ var \in DOMAIN h[sub].dict THEN sub
     ELSE IF var \in DOMAIN h[f].dict THEN f
     ELSE 0

\* the name an Id node keeps after its Token.ID
IdName(n) == n.nodes[2].v

(***************************************************************************)
(* Semantic pass.  A pass state is [h, err]: the heap and the kind of the   *)
(* sys.exit taken, "" while none.  parent is the role tag: "None", "get",  *)
(* "declare", "assign" or "call".                                          *)
(***************************************************************************)
IdSemantics(n, parent, scope, st) ==
  LET name == IdName(n)
      f == dfs_scope(st.h, global_scope, name)
  IN CASE parent = "get" ->
            IF f = 0 THEN [st EXCEPT !.err = "UndeclaredVariable"]
            ELSE IF st.h[f].dict[name] = BoolV(FALSE)
                 THEN [st EXCEPT !.err = "UninitializedVariable"]
            ELSE st
       [] parent = "declare" ->
            IF name \notin DOMAIN st.h[scope].dict
            THEN [st EXCEPT !.h = FrameSet(st.h, scope, name, BoolV(FALSE))]
            ELSE [st EXCEPT !.err = "DuplicateDeclaration"]
       [] parent = "assign" ->
            IF f = 0 THEN [st EXCEPT !.err = "UndeclaredVariable"]
            ELSE [st EXCEPT !.h = FrameSet(st.h, f, name, BoolV(TRUE))]
       [] OTHER -> st

RECURSIVE semantics(_, _, _, _), SemNodes(_, _, _, _, _, _)

\* for node in self.nodes: if <node is selected>: node.semantics(parser, parent, scope)
\* only: the classes visited ({} for every class that is not Token)
SemNodes(nodes, i, only, parent, scope, st) ==
  IF i > Len(nodes) \/ st.err # "" THEN st
  ELSE LET n == nodes[i]
           pick == n.type # "Token" /\ (only = {} \/ n.type \in only)
       IN SemNodes(nodes, i + 1, only, parent, scope,
                   IF pick THEN semantics(n, parent, scope, st) ELSE st)

\* node.semantics(parser, parent, scope) of every class but StmtSeq, If, While, Program
semantics(n, parent, scope, st) ==
  CASE n.type = "Id" -> IdSemantics(n, parent, scope, st)
    [] n.type = "Const" -> st
    [] n.type = "Decl" -> SemNodes(n.nodes, 1, {"IdList"}, "declare", scope, st)
    [] n.type = "Assign" -> SemNodes(n.nodes, 1, {}, "assign", scope, st)
    [] n.type = "Input" -> SemNodes(n.nodes, 1, {"Id"}, "assign", scope, st)
    [] n.type = "Output" -> SemNodes(n.nodes, 1, {}, "call", scope, st)
    [] OTHER -> SemNodes(n.nodes, 1, {}, parent, scope, st)

(***************************************************************************)
(* Python arithmetic and comparison on the values the executor handles     *)
(* (int from constants and arithmetic, str from the data file).            *)
(***************************************************************************)
\* chr(32) .. chr(95), in order
Printable ==
  <<
    " ", "!", "\"", "#", "$", "%", "&", "'", "(", ")", "*", "+",
    ",", "-", ".", "/", "0", "1", "2", "3", "4", "5", "6", "7",
    "8", "9", ":", ";", "<", "=", ">", "?", "@", "A", "B", "C",
    "D", "E", "F", "G", "H", "I", "J", "K", "L", "M", "N", "O",
    "P", "Q", "R", "S", "T", "U", "V", "W", "X", "Y", "Z", "[",
    "\\", "]", "^", "_"
  >>
\* chr(97) .. chr(126), in order
Lower ==
  <<
    "a", "b", "c", "d", "e", "f", "g", "h", "i", "j", "k", "l",
    "m", "n", "o", "p", "q", "r", "s", "t", "u", "v", "w", "x",
    "y", "z", "{", "|", "}", "~"
  >>

\* ord(c) for the characters of the model: the ASCII white space \t \n \f \r and the
\* printable ASCII characters but chr(96)
Ord(c) ==
  CASE c = "\t" -> 9 [] c = "\n" -> 10 [] c = "\f" -> 12 [] c = "\r" -> 13
    [] \E k \in 1..Len(Lower) : Lower[k] = c -> 96 + (CHOOSE k \in 1..Len(Lower) : Lower[k] = c)
    [] OTHER -> 31 + (CHOOSE k \in 1..Len(Printable) : Printable[k] = c)

IsDigit(c) == Ord(c) >= 48 /\ Ord(c) <= 57

RECURSIVE Repeat(_, _)
Repeat(cs, n) == IF n <= 0 THEN <<>> ELSE cs \o Repeat(cs, n - 1)

RECURSIVE StrLess(_, _)
\* a < b on str: lexicographic by code point
StrLess(a, b) ==
  IF b = <<>> THEN FALSE
  ELSE IF a = <<>> THEN TRUE
  ELSE IF Ord(Head(a)) # Ord(Head(b)) THEN Ord(Head(a)) < Ord(Head(b))
  ELSE StrLess(Tail(a), Tail(b))

\* a + b; the right operand may be an evaluation that ended the run
PyAdd(a, b) ==
  IF IsErr(b) THEN b
  ELSE IF a.k = "int" /\ b.k = "int" THEN IntV(a.i + b.i)
  ELSE IF a.k = "str" /\ b.k = "str" THEN StrV(a.s \o b.s)
  ELSE RaiseV("TypeError")

\* a - b
PySub(a, b) ==
  IF IsErr(b) THEN b
  ELSE IF a.k = "int" /\ b.k = "int" THEN IntV(a.i - b.i)
  ELSE RaiseV("TypeError")

\* a * b
PyMul(a, b) ==
  IF IsErr(b) THEN b
  ELSE IF a.k = "int" /\ b.k = "int" THEN IntV(a.i * b.i)
  ELSE IF a.k = "str" /\ b.k = "int" THEN StrV(Repeat(a.s, b.i))
  ELSE IF a.k = "int" /\ b.k = "str" THEN StrV(Repeat(b.s, a.i))
  ELSE RaiseV("TypeError")

\* a < b
PyLess(a, b) ==
  IF IsErr(b) THEN b
  ELSE IF a.k = "int" /\ b.k = "int" THEN BoolV(a.i < b.i)
  ELSE IF a.k = "str" /\ b.k = "str" THEN BoolV(StrLess(a.s, b.s))
  ELSE RaiseV("TypeError")

\* a == b
PyEqual(a, b) == IF IsErr(b) THEN b ELSE BoolV(a = b)

\* a <= b
PyLessEqual(a, b) ==
  IF IsErr(b) THEN b
  ELSE IF a.k = "int" /\ b.k = "int" THEN BoolV(a.i <= b.i)
  ELSE IF a.k = "str" /\ b.k = "str" THEN BoolV(a.s = b.s \/ StrLess(a.s, b.s))
  ELSE RaiseV("TypeError")

(***************************************************************************)
(* Executor: expressions and conditions.  h is the heap; the result is a   *)
(* value, or ExitV/RaiseV when the evaluation ended the run.               *)
(***************************************************************************)
\* Id.execute with caller 'get', without the test for an unset value
IdGetUnchecked(n, h) ==
  LET name == IdName(n)
      f == dfs_scope(h, global_scope, name)
  IN IF f = 0 THEN ExitV("UndeclaredVariable") ELSE h[f].dict[name]

\* Id.execute with caller 'get'; both tests of its condition end the run by the same
\* sys.exit, and the error records which of the two held
IdGet(n, h) ==
  LET name == IdName(n)
      f == dfs_scope(h, global_scope, name)
  IN IF f = 0 THEN ExitV("UndeclaredVariable")
     ELSE IF h[f].dict[name] = None THEN ExitV("UninitializedVariable")
     ELSE h[f].dict[name]

\* Const.execute
ConstExecute(n) == IntV(n.nodes[1].c)

RECURSIVE ExprExecute(_, _), TermExecute(_, _), CondExecute(_, _)

\* Factor.execute
FactorExecute(n, h) ==
  IF n.nodes[1].type = "Const" THEN ConstExecute(n.nodes[1])
  ELSE IF n.nodes[1].type = "Id" THEN IdGet(n.nodes[1], h)
  ELSE ExprExecute(n.nodes[2], h)

\* Term.execute, after val = self.nodes[0].execute(...)
TermRest(n, h, val) ==
  IF IsErr(val) \/ Len(n.nodes) <= 1 \/ ~IsTok(n.nodes[2], "MULT") THEN val
  ELSE PyMul(val, TermExecute(n.nodes[3], h))
TermExecute(n, h) == TermRest(n, h, FactorExecute(n.nodes[1], h))

\* Expr.execute with the operands of + and - taken in the other order
ExprRestSwapped(n, h, val) ==
  IF IsErr(val) \/ Len(n.nodes) <= 1 THEN val
  ELSE IF IsTok(n.nodes[2], "ADD") THEN PyAdd(val, ExprExecute(n.nodes[3], h))
  ELSE IF IsTok(n.nodes[2], "SUB") THEN PySub(ExprExecute(n.nodes[3], h), val)
  ELSE val

\* Expr.execute, after val = self.nodes[0].execute(...)
ExprRest(n, h, val) ==
  IF IsErr(val) \/ Len(n.nodes) <= 1 THEN val
  ELSE IF IsTok(n.nodes[2], "ADD") THEN PyAdd(val, ExprExecute(n.nodes[3], h))
  ELSE IF IsTok(n.nodes[2], "SUB") THEN PySub(val, ExprExecute(n.nodes[3], h))
  ELSE val
ExprExecute(n, h) == ExprRest(n, h, TermExecute(n.nodes[1], h))

\* Cmpr.execute, after expr = self.nodes[0].execute(...)
CmprRest(n, h, expr) ==
  IF IsErr(expr) THEN expr
  ELSE IF Len(n.nodes) < 3 THEN RaiseV("IndexError")
  ELSE IF IsTok(n.nodes[2], "LESS") THEN PyLess(expr, ExprExecute(n.nodes[3], h))
  ELSE IF IsTok(n.nodes[2], "EQUAL") THEN PyEqual(expr, ExprExecute(n.nodes[3], h))
  ELSE PyLessEqual(expr, ExprExecute(n.nodes[3], h))
CmprExecute(n, h) == CmprRest(n, h, ExprExecute(n.nodes[1], h))

\* val |= other
PyOr(a, b) == IF IsErr(b) THEN b ELSE BoolV(a.i = 1 \/ b.i = 1)
\* not val
PyNot(a) == IF IsErr(a) THEN a ELSE BoolV(a.i = 0)

\* Cond.execute, after val = self.nodes[0].execute(...)
CondRest(n, h, val) ==
  IF IsErr(val) \/ Len(n.nodes) <= 1 \/ ~IsTok(n.nodes[2], "OR") THEN val
  ELSE PyOr(val, CondExecute(n.nodes[3], h))
CondExecute(n, h) ==
  IF ~IsTok(n.nodes[1], "NEGATION") THEN CondRest(n, h, CmprExecute(n.nodes[1], h))
  ELSE PyNot(CondExecute(n.nodes[3], h))

(***************************************************************************)
(* Executor: declarations (Decl.execute -> IdList.execute -> Id.execute    *)
(* with caller 'declare').  The pass state is [h, err] as in the semantic  *)
(* pass.                                                                   *)
(***************************************************************************)
IdDeclare(n, loc, st) ==
  LET name == IdName(n)
  IN IF name \notin DOMAIN st.h[loc].dict
     THEN [st EXCEPT !.h = FrameSet(st.h, loc, name, None)]
     ELSE [st EXCEPT !.err = "DuplicateDeclaration"]

RECURSIVE DeclExecute(_, _, _), DeclNodes(_, _, _, _)
\* for node in self.nodes: if type(node) is not Token: node.execute(parser, 'declare', local)
DeclNodes(nodes, i, loc, st) ==
  IF i > Len(nodes) \/ st.err # "" THEN st
  ELSE DeclNodes(nodes, i + 1, loc,
                 IF nodes[i].type # "Token" THEN DeclExecute(nodes[i], loc, st) ELSE st)

DeclExecute(n, loc, st) ==
  IF n.type = "Id" THEN IdDeclare(n, loc, st) ELSE DeclNodes(n.nodes, 1, loc, st)

(***************************************************************************)
(* The data file (Parser.clean_data) and print.                            *)
(***************************************************************************)
RECURSIVE Split(_, _)
\* text.split(' '): cur is the piece being read
Split(cs, cur) ==
  IF cs = <<>> THEN <<cur>>
  ELSE IF Head(cs) = " " THEN <<cur>> \o Split(Tail(cs), <<>>)
  ELSE Split(Tail(cs), Append(cur, Head(cs)))

\* c.isspace() for the characters of the model
IsSpace(c) == c \in {" ", "\t", "\n", "\f", "\r"}

RECURSIVE LStrip(_), RStrip(_)
LStrip(cs) == IF cs # <<>> /\ IsSpace(Head(cs)) THEN LStrip(Tail(cs)) ELSE cs
RStrip(cs) ==
  IF cs # <<>> /\ IsSpace(cs[Len(cs)]) THEN RStrip(SubSeq(cs, 1, Len(cs) - 1)) ELSE cs

\* digits, with single underscores allowed between two digits
Grouped(ds) ==
  /\ ds # <<>>
  /\ IsDigit(ds[1]) /\ IsDigit(ds[Len(ds)])
  /\ \A j \in 1..Len(ds) : IsDigit(ds[j]) \/ (ds[j] = "_" /\ j > 1 /\ IsDigit(ds[j - 1]))

RECURSIVE DigitsValue(_, _)
DigitsValue(cs, acc) ==
  IF cs = <<>> THEN acc
  ELSE IF Head(cs) = "_" THEN DigitsValue(Tail(cs), acc)
  ELSE DigitsValue(Tail(cs), 10 * acc + (Ord(Head(cs)) - 48))

\* int() of a piece without surrounding white space
IntLiteral(cs) ==
  IF cs # <<>> /\ Head(cs) = "-"
  THEN (IF Grouped(Tail(cs)) THEN IntV(0 - DigitsValue(Tail(cs), 0)) ELSE RaiseV("ValueError"))
  ELSE IF cs # <<>> /\ Head(cs) = "+"
  THEN (IF Grouped(Tail(cs)) THEN IntV(DigitsValue(Tail(cs), 0)) ELSE RaiseV("ValueError"))
  ELSE IF Grouped(cs) THEN IntV(DigitsValue(cs, 0))
  ELSE RaiseV("ValueError")

\* int(c) of a str: white space around the literal is ignored
PyInt(cs) == IntLiteral(RStrip(LStrip(cs)))

RECURSIVE ReadText(_)
\* scan.read() of a file opened in text mode: \r\n and \r are read as \n
ReadText(cs) ==
  IF cs = <<>> THEN <<>>
  ELSE IF Head(cs) = "\r"
  THEN <<"\n">> \o ReadText(IF Len(cs) > 1 /\ cs[2] = "\n" THEN Tail(Tail(cs)) ELSE Tail(cs))
  ELSE <<Head(cs)>> \o ReadText(Tail(cs))

\* the list clean_data returns, or the exception int(c) raised in its loop:
\* the loop rebinds c and leaves consts as split produced it
clean_data(cs) ==
  LET consts == Split(ReadText(cs), <<>>)
  IN IF \E j \in 1..Len(consts) : IsErr(PyInt(consts[j])) THEN RaiseV("ValueError")
     ELSE [k |-> "list", i |-> 0, s |-> [j \in 1..Len(consts) |-> StrV(consts[j])]]

RECURSIVE NatStr(_)
NatStr(n) ==
  LET d == <<"0", "1", "2", "3", "4", "5", "6", "7", "8", "9">>[(n % 10) + 1]
  IN IF n < 10 THEN <<d>> ELSE Append(NatStr(n \div 10), d)

\* str(v), the line print(v) writes
PyStr(v) ==
  IF v.k = "str" THEN v.s
  ELSE IF v.i < 0 THEN <<"-">> \o NatStr(0 - v.i) ELSE NatStr(v.i)

(***************************************************************************)
(* The work list of a pass.  An item is a statement still to visit with    *)
(* the frame it is given (scope / local), or a step of an enclosing        *)
(* method that follows its children: "begin" (Program reaching its BEGIN   *)
(* token), "end" (scope.child = None of If and While), "loop" (the while   *)
(* statement of While.execute).                                            *)
(***************************************************************************)
Item(op, node, loc) == [op |-> op, node |-> node, loc |-> loc]

RECURSIVE Stmts(_, _)
\* the statements a StmtSeq (or the declarations a DeclSeq) visits, in order
Stmts(n, loc) ==
  IF Len(n.nodes) > 1 THEN <<Item("stmt", n.nodes[1], loc)>> \o Stmts(n.nodes[2], loc)
  ELSE <<Item("stmt", n.nodes[1], loc)>>

\* the visit of Program.nodes: DeclSeq in the root frame, BEGIN, StmtSeq in ps
ProgramItems(g, ps) ==
  Stmts(tree.nodes[2], g) \o <<Item("begin", TokNode("BEGIN"), ps)>> \o Stmts(tree.nodes[4], ps)

RECURSIVE NodeIds(_)
\* the If and While objects of a tree
NodeIds(n) ==
  (IF n.nid # 0 THEN {n.nid} ELSE {}) \cup UNION {NodeIds(n.nodes[j]) : j \in 1..Len(n.nodes)}

Top == stack[1]
Running(ph, op) == halt = "" /\ phase = ph /\ stack # <<>> /\ Top.op = op
AtStmt(ph, type) == Running(ph, "stmt") /\ Top.node.type = type

(***************************************************************************)
(* Inputs: token streams and data files.                                   *)
(***************************************************************************)
Header == <<K("PROGRAM"), K("INT"), V("x"), K("SEMICOLON"), K("BEGIN")>>

\* int y;
SnDeclY == <<K("INT"), V("y"), K("SEMICOLON")>>
\* x = 0;
SnSetX == <<V("x"), K("ASSIGN"), N(0), K("SEMICOLON")>>
\* y = x + 1;
SnSetY == <<V("y"), K("ASSIGN"), V("x"), K("ADD"), N(1), K("SEMICOLON")>>
\* input x;
SnInputX == <<K("INPUT"), V("x"), K("SEMICOLON")>>
\* output x;
SnOutputX == <<K("OUTPUT"), V("x"), K("SEMICOLON")>>
\* output y;
SnOutputY == <<K("OUTPUT"), V("y"), K("SEMICOLON")>>
\* if x < 1 then int x; x = 5; output x; else output x; endif
SnIfShadow ==
  <<K("IF"), V("x"), K("LESS"), N(1), K("THEN"),
    K("INT"), V("x"), K("SEMICOLON"),
    V("x"), K("ASSIGN"), N(5), K("SEMICOLON"),
    K("OUTPUT"), V("x"), K("SEMICOLON"),
    K("ELSE"), K("OUTPUT"), V("x"), K("SEMICOLON"), K("ENDIF")>>
\* while x < 2 begin int y; y = x; x = x + 1; endwhile
SnWhileDecl ==
  <<K("WHILE"), V("x"), K("LESS"), N(2), K("BEGIN"),
    K("INT"), V("y"), K("SEMICOLON"),
    V("y"), K("ASSIGN"), V("x"), K("SEMICOLON"),
    V("x"), K("ASSIGN"), V("x"), K("ADD"), N(1), K("SEMICOLON"), K("ENDWHILE")>>
\* while x < 2 begin if x <= 1 then int y; y = x; endif x = x + 1; endwhile
SnWhileIf ==
  <<K("WHILE"), V("x"), K("LESS"), N(2), K("BEGIN"),
    K("IF"), V("x"), K("LESSEQUAL"), N(1), K("THEN"),
    K("INT"), V("y"), K("SEMICOLON"),
    V("y"), K("ASSIGN"), V("x"), K("SEMICOLON"), K("ENDIF"),
    V("x"), K("ASSIGN"), V("x"), K("ADD"), N(1), K("SEMICOLON"), K("ENDWHILE")>>
\* while x < 2 begin int x; x = 5; endwhile
SnWhileShadow ==
  <<K("WHILE"), V("x"), K("LESS"), N(2), K("BEGIN"),
    K("INT"), V("x"), K("SEMICOLON"),
    V("x"), K("ASSIGN"), N(5), K("SEMICOLON"), K("ENDWHILE")>>
\* while 0 < 1 begin x = 1; endwhile
SnForever ==
  <<K("WHILE"), N(0), K("LESS"), N(1), K("BEGIN"),
    V("x"), K("ASSIGN"), N(1), K("SEMICOLON"), K("ENDWHILE")>>

Pool == {SnDeclY, SnSetX, SnSetY, SnInputX, SnOutputX, SnOutputY, SnIfShadow,
         SnWhileDecl, SnWhileIf, SnWhileShadow, SnForever}

RECURSIVE Bodies(_)
\* the concatenations of at most k snippets
Bodies(k) ==
  IF k = 0 THEN {<<>>}
  ELSE Bodies(k - 1) \cup {b \o sn : b \in Bodies(k - 1), sn \in Pool}

\* program int x, y; begin x = 3; y = x * 2 + 1; output y; end
Scenario2 ==
  <<K("PROGRAM"), K("INT"), V("x"), K("COMMA"), V("y"), K("SEMICOLON"), K("BEGIN"),
    V("x"), K("ASSIGN"), N(3), K("SEMICOLON"),
    V("y"), K("ASSIGN"), V("x"), K("MULT"), N(2), K("ADD"), N(1), K("SEMICOLON"),
    K("OUTPUT"), V("y"), K("SEMICOLON"), K("END")>>
\* program int x; begin input x; while x < 3 begin x = x + 1; endwhile output x; end
Scenario3 ==
  <<K("PROGRAM"), K("INT"), V("x"), K("SEMICOLON"), K("BEGIN"),
    K("INPUT"), V("x"), K("SEMICOLON"),
    K("WHILE"), V("x"), K("LESS"), N(3), K("BEGIN"),
    V("x"), K("ASSIGN"), V("x"), K("ADD"), N(1), K("SEMICOLON"), K("ENDWHILE"),
    K("OUTPUT"), V("x"), K("SEMICOLON"), K("END")>>
\* program int x; begin output 2 - 3 - 4; output (2 - 3) * 4; end
ScenarioArith ==
  <<K("PROGRAM"), K("INT"), V("x"), K("SEMICOLON"), K("BEGIN"),
    K("OUTPUT"), N(2), K("SUB"), N(3), K("SUB"), N(4), K("SEMICOLON"),
    K("OUTPUT"), K("LPAREN"), N(2), K("SUB"), N(3), K("RPAREN"), K("MULT"), N(4),
    K("SEMICOLON"), K("END")>>

\* program int x, y; begin x = 3; output x; output x + y; y = 1; end
Scenario4 ==
  <<K("PROGRAM"), K("INT"), V("x"), K("COMMA"), V("y"), K("SEMICOLON"), K("BEGIN"),
    V("x"), K("ASSIGN"), N(3), K("SEMICOLON"),
    K("OUTPUT"), V("x"), K("SEMICOLON"),
    K("OUTPUT"), V("x"), K("ADD"), V("y"), K("SEMICOLON"),
    V("y"), K("ASSIGN"), N(1), K("SEMICOLON"), K("END")>>

\* program int x; begin int x; x = 1; if x < 2 then int y; y = 2; endif
\*   if x < 2 then int x; x = 3; if x < 4 then int x; x = 5; output x; endif output x; endif
\*   output x; output y; end
ScenarioNest ==
  <<K("PROGRAM"), K("INT"), V("x"), K("SEMICOLON"), K("BEGIN"),
    K("INT"), V("x"), K("SEMICOLON"),
    V("x"), K("ASSIGN"), N(1), K("SEMICOLON"),
    K("IF"), V("x"), K("LESS"), N(2), K("THEN"),
    K("INT"), V("y"), K("SEMICOLON"),
    V("y"), K("ASSIGN"), N(2), K("SEMICOLON"), K("ENDIF"),
    K("IF"), V("x"), K("LESS"), N(2), K("THEN"),
    K("INT"), V("x"), K("SEMICOLON"),
    V("x"), K("ASSIGN"), N(3), K("SEMICOLON"),
    K("IF"), V("x"), K("LESS"), N(4), K("THEN"),
    K("INT"), V("x"), K("SEMICOLON"),
    V("x"), K("ASSIGN"), N(5), K("SEMICOLON"),
    K("OUTPUT"), V("x"), K("SEMICOLON"), K("ENDIF"),
    K("OUTPUT"), V("x"), K("SEMICOLON"), K("ENDIF"),
    K("OUTPUT"), V("x"), K("SEMICOLON"),
    K("OUTPUT"), V("y"), K("SEMICOLON"), K("END")>>

\* program int x; begin x = 0; if x 1 then output x; endif end
ScenarioNoCmpr ==
  <<K("PROGRAM"), K("INT"), V("x"), K("SEMICOLON"), K("BEGIN"),
    V("x"), K("ASSIGN"), N(0), K("SEMICOLON"),
    K("IF"), V("x"), N(1), K("THEN"),
    K("OUTPUT"), V("x"), K("SEMICOLON"), K("ENDIF"), K("END")>>

Scenarios == {Scenario2, Scenario3, Scenario4, ScenarioArith, ScenarioNest, ScenarioNoCmpr}

\* program int x; begin output a o1 b o2 c; end
ExprProgram(a, o1, b, o2, c) ==
  Header \o <<K("OUTPUT"), N(a), K(o1), N(b), K(o2), N(c), K("SEMICOLON"), K("END")>>
ExprPrograms ==
  {ExprProgram(a, o1, b, o2, c) : a \in 2..4, b \in 2..4, c \in 2..4,
                                  o1 \in {"ADD", "SUB", "MULT"}, o2 \in {"ADD", "SUB", "MULT"}}

Programs ==
  {Header \o b \o <<K("END")>> : b \in Bodies(MaxSnippets)} \cup Scenarios \cup ExprPrograms

\* "0", "7 8", "7 8" with the line end \r\n, and the empty file
Texts == {<<"0">>, <<"7", " ", "8">>, <<"7", " ", "8", "\r", "\n">>, <<>>}

\* Parser.__init__: Program() makes program_scope, then global_scope is made
Init ==
  /\ tokens \in Programs
  /\ text \in Texts
  /\ phase = "init"
  /\ halt = ""
  /\ err = ""
  /\ tree = Node("Program", <<>>, 0)
  /\ heap = <<scope_tree, scope_tree>>
  /\ program_scope = 1
  /\ global_scope = 2
  /\ local = [x \in {} |-> 0]
  /\ data = <<>>
  /\ out = <<>>
  /\ stack = <<>>
  /\ checks = 0
  /\ steps = 0
  /\ entry = [x \in {} |-> <<>>]
  /\ iters = [x \in {} |-> 0]

\* sys.exit or an uncaught exception: v is ExitV(kind) or RaiseV(kind)
Abort(v) == halt' = v.k /\ err' = v.s[1]

(***************************************************************************)
(* Parser.build_tree, first half: self.tree.parse(self).  Every If and     *)
(* While object made by the parse owns a scope_tree from its __init__.     *)
(***************************************************************************)
Parse ==
  /\ halt = "" /\ phase = "init"
  /\ LET r == ProgramParse
         ids == NodeIds(r.n)
         rank(j) == Cardinality({q \in ids : q <= j})
     IN IF r.ok
        THEN /\ tree' = r.n
             /\ heap' = heap \o [j \in 1..Cardinality(ids) |-> scope_tree]
             /\ local' = [j \in ids |-> Len(heap) + rank(j)]
             /\ entry' = [j \in ids |-> <<>>]
             /\ iters' = [j \in ids |-> 0]
             /\ phase' = "parsed"
             /\ UNCHANGED <<halt, err>>
        ELSE /\ IF r.bad THEN \E v \in BadStart : Abort(v)
                ELSE Abort(ExitV("UnexpectedToken"))
             /\ UNCHANGED <<phase, tree, heap, local, entry, iters>>
  /\ UNCHANGED <<tokens, text, global_scope, program_scope, data, out, stack, checks, steps>>

(***************************************************************************)
(* Semantic pass (Program.semantics and the semantics methods it reaches). *)
(***************************************************************************)
\* Program.semantics is entered: scope = parser.global_scope
SemanticsStart ==
  /\ halt = "" /\ phase = "parsed"
  /\ phase' = "check"
  /\ checks' = checks + 1
  /\ stack' = ProgramItems(global_scope, program_scope)
  /\ UNCHANGED <<tokens, text, halt, err, tree, heap, global_scope, program_scope, local,
                 data, out, steps, entry, iters>>

\* the pass goes on with st, or stops at the sys.exit st.err names
SemContinue(st, rest) ==
  /\ heap' = st.h
  /\ IF st.err = "" THEN stack' = rest /\ UNCHANGED <<halt, err>>
     ELSE Abort(ExitV(st.err)) /\ UNCHANGED stack
  /\ UNCHANGED <<tokens, text, phase, tree, global_scope, program_scope, local, data, out,
                 checks, steps, entry, iters>>

\* node is Token.BEGIN: scope = self.program_scope; parser.global_scope.child = scope
SemBegin ==
  /\ Running("check", "begin")
  /\ SemContinue([h |-> Attach(heap, global_scope, program_scope), err |-> ""], Tail(stack))

\* Decl.semantics (reached from DeclSeq.semantics or StmtSeq.semantics)
SemDecl ==
  /\ AtStmt("check", "Decl")
  /\ SemContinue(semantics(Top.node, "None", Top.loc, [h |-> heap, err |-> ""]), Tail(stack))

\* Assign.semantics
SemAssign ==
  /\ AtStmt("check", "Assign")
  /\ SemContinue(semantics(Top.node, "None", Top.loc, [h |-> heap, err |-> ""]), Tail(stack))

\* Input.semantics
SemInput ==
  /\ AtStmt("check", "Input")
  /\ SemContinue(semantics(Top.node, "None", Top.loc, [h |-> heap, err |-> ""]), Tail(stack))

\* Output.semantics
SemOutput ==
  /\ AtStmt("check", "Output")
  /\ SemContinue(semantics(Top.node, "None", Top.loc, [h |-> heap, err |-> ""]), Tail(stack))

RECURSIVE BlockItems(_, _, _)
\* the statements of the StmtSeq nodes among the nodes of an If or While
BlockItems(nodes, i, loc) ==
  IF i > Len(nodes) THEN <<>>
  ELSE (IF nodes[i].type = "StmtSeq" THEN Stmts(nodes[i], loc) ELSE <<>>)
       \o BlockItems(nodes, i + 1, loc)

\* If.semantics and While.semantics up to their statement sequences:
\* scope.child = self.local, then the Cond is visited with the parent's role
BlockSemantics(n, scope) ==
  SemContinue(semantics(n.nodes[2], "None", local[n.nid],
                        [h |-> Attach(heap, scope, local[n.nid]), err |-> ""]),
              BlockItems(n.nodes, 1, local[n.nid]) \o <<Item("end", n, scope)>> \o Tail(stack))

\* If.semantics
SemIf == AtStmt("check", "If") /\ BlockSemantics(Top.node, Top.loc)

\* While.semantics
SemWhile == AtStmt("check", "While") /\ BlockSemantics(Top.node, Top.loc)

\* node is Token.ENDIF / Token.ENDWHILE: scope.child = None
SemBlockEnd ==
  /\ Running("check", "end")
  /\ SemContinue([h |-> Attach(heap, Top.loc, 0), err |-> ""], Tail(stack))

\* Program.semantics returns
SemanticsEnd ==
  /\ halt = "" /\ phase = "check" /\ stack = <<>>
  /\ phase' = "checked"
  /\ UNCHANGED <<tokens, text, halt, err, tree, heap, global_scope, program_scope, local,
                 data, out, stack, checks, steps, entry, iters>>

\* Program.semantics is called once more on the same tree, nothing run in between
SemanticsAgain ==
  /\ halt = "" /\ phase = "checked" /\ checks = 1
  /\ phase' = "check"
  /\ checks' = checks + 1
  /\ stack' = ProgramItems(global_scope, program_scope)
  /\ UNCHANGED <<tokens, text, halt, err, tree, heap, global_scope, program_scope, local,
                 data, out, steps, entry, iters>>

(***************************************************************************)
(* Execution pass (Parser.execute_tree, Program.execute and the execute    *)
(* methods it reaches).                                                    *)
(***************************************************************************)
\* Parser.execute_tree and Program.execute going on with the frames of the check pass
ExecuteTreeKept ==
  /\ halt = "" /\ phase = "checked" /\ checks = 1
  /\ LET d == clean_data(text)
     IN IF IsErr(d)
        THEN /\ Abort(d)
             /\ UNCHANGED <<phase, data, stack>>
        ELSE /\ data' = d.s
             /\ stack' = ProgramItems(global_scope, program_scope)
             /\ phase' = "exec"
             /\ UNCHANGED <<halt, err>>
  /\ UNCHANGED <<tokens, text, tree, heap, global_scope, program_scope, local, out, checks,
                 steps, entry, iters>>

\* Parser.execute_tree and the entry of Program.execute
ExecuteTree ==
  /\ halt = "" /\ phase = "checked" /\ checks = 1
  /\ LET d == clean_data(text)
         g == Len(heap) + 1
         ps == Len(heap) + 2
     IN IF IsErr(d)
        THEN /\ Abort(d)
             /\ UNCHANGED <<phase, data, heap, global_scope, program_scope, stack>>
        ELSE /\ data' = d.s
             /\ heap' = heap \o <<scope_tree, scope_tree>>
             /\ global_scope' = g
             /\ program_scope' = ps
             /\ stack' = ProgramItems(g, ps)
             /\ phase' = "exec"
             /\ UNCHANGED <<halt, err>>
  /\ UNCHANGED <<tokens, text, tree, local, out, checks, steps, entry, iters>>

\* one more statement is executed
Step == steps < MaxSteps /\ steps' = steps + 1

\* the executor goes on with heap h and work list rest
ExecContinue(h, rest) ==
  /\ heap' = h
  /\ stack' = rest
  /\ UNCHANGED <<halt, err>>

\* the run ends at v (ExitV or RaiseV) with heap h
ExecAbort(v, h) ==
  /\ heap' = h
  /\ Abort(v)
  /\ UNCHANGED stack

\* node is Token.BEGIN: scope = self.program_scope; parser.global_scope.child = scope
ExecBegin ==
  /\ Running("exec", "begin")
  /\ ExecContinue(Attach(heap, global_scope, program_scope), Tail(stack))
  /\ UNCHANGED <<tokens, text, phase, tree, global_scope, program_scope, local, data, out,
                 checks, steps, entry, iters>>

\* Decl.execute
ExecDecl ==
  /\ AtStmt("exec", "Decl")
  /\ Step
  /\ LET st == DeclExecute(Top.node, Top.loc, [h |-> heap, err |-> ""])
     IN IF st.err = "" THEN ExecContinue(st.h, Tail(stack))
        ELSE ExecAbort(ExitV(st.err), st.h)
  /\ UNCHANGED <<tokens, text, phase, tree, global_scope, program_scope, local, data, out,
                 checks, entry, iters>>

\* Assign.execute
ExecAssign ==
  /\ AtStmt("exec", "Assign")
  /\ Step
  /\ LET var == IdName(Top.node.nodes[1])
         f == dfs_scope(heap, global_scope, var)
         expr == ExprExecute(Top.node.nodes[3], heap)
     IN IF f = 0 THEN ExecAbort(ExitV("UndeclaredVariable"), heap)
        ELSE IF IsErr(expr) THEN ExecAbort(expr, heap)
        ELSE ExecContinue(FrameSet(heap, f, var, expr), Tail(stack))
  /\ UNCHANGED <<tokens, text, phase, tree, global_scope, program_scope, local, data, out,
                 checks, entry, iters>>

\* Input.execute taking the last element of the queue (data.pop()) instead of the first
ExecInputPopLast ==
  /\ AtStmt("exec", "Input")
  /\ Step
  /\ LET var == IdName(Top.node.nodes[2])
         f == dfs_scope(heap, global_scope, var)
     IN IF f = 0 THEN ExecAbort(ExitV("UndeclaredVariable"), heap) /\ data' = data
        ELSE IF Len(data) > 0
        THEN /\ ExecContinue(FrameSet(heap, f, var, data[Len(data)]), Tail(stack))
             /\ data' = SubSeq(data, 1, Len(data) - 1)
        ELSE ExecAbort(ExitV("InputExhausted"), heap) /\ data' = data
  /\ UNCHANGED <<tokens, text, phase, tree, global_scope, program_scope, local, out,
                 checks, entry, iters>>

\* Input.execute
ExecInput ==
  /\ AtStmt("exec", "Input")
  /\ Step
  /\ LET var == IdName(Top.node.nodes[2])
         f == dfs_scope(heap, global_scope, var)
     IN IF f = 0 THEN ExecAbort(ExitV("UndeclaredVariable"), heap) /\ data' = data
        ELSE IF Len(data) > 0
        THEN ExecContinue(FrameSet(heap, f, var, Head(data)), Tail(stack)) /\ data' = Tail(data)
        ELSE ExecAbort(ExitV("InputExhausted"), heap) /\ data' = data
  /\ UNCHANGED <<tokens, text, phase, tree, global_scope, program_scope, local, out,
                 checks, entry, iters>>

\* Output.execute
ExecOutput ==
  /\ AtStmt("exec", "Output")
  /\ Step
  /\ LET val == ExprExecute(Top.node.nodes[2], heap)
     IN IF IsErr(val) THEN ExecAbort(val, heap) /\ out' = out
        ELSE ExecContinue(heap, Tail(stack)) /\ out' = Append(out, PyStr(val))
  /\ UNCHANGED <<tokens, text, phase, tree, global_scope, program_scope, local, data,
                 checks, entry, iters>>

\* If.execute keeping the scope_tree the node already owns
IfLocalKept(n) == local[n.nid]

\* self.local = scope_tree() of If.execute: the heap index of the new object
IfLocal(n) == Len(heap) + 1

\* If.execute, after truth = self.nodes[1].execute(...) in heap h
IfBranch(n, own, h, truth, after) ==
  IF IsErr(truth) THEN ExecAbort(truth, h)
  ELSE IF truth.i = 1 THEN ExecContinue(h, Stmts(n.nodes[4], own) \o after)
  ELSE IF IsTok(n.nodes[5], "ELSE") THEN ExecContinue(h, Stmts(n.nodes[6], own) \o after)
  ELSE ExecContinue(h, after)

\* If.execute, after self.local = scope_tree() made object own in heap h
IfAttach(n, loc, own, h) ==
  /\ local' = [local EXCEPT ![n.nid] = own]
  /\ IfBranch(n, own, Attach(h, loc, own), CondExecute(n.nodes[2], Attach(h, loc, own)),
              <<Item("end", n, loc)>> \o Tail(stack))

\* If.execute up to the branch it takes
IfExecute ==
  /\ AtStmt("exec", "If")
  /\ Step
  /\ IfAttach(Top.node, Top.loc, IfLocal(Top.node), Append(heap, scope_tree))
  /\ entry' = [entry EXCEPT ![Top.node.nid] = heap]
  /\ UNCHANGED <<tokens, text, phase, tree, global_scope, program_scope, data, out,
                 checks, iters>>

\* the last line of If.execute: local.child = None
IfEnd ==
  /\ Running("exec", "end")
  /\ ExecContinue(Attach(heap, Top.loc, 0), Tail(stack))
  /\ UNCHANGED <<tokens, text, phase, tree, global_scope, program_scope, local, data, out,
                 checks, steps, entry, iters>>

\* While.execute up to its while statement
WhileExecute ==
  /\ AtStmt("exec", "While")
  /\ Step
  /\ local' = [local EXCEPT ![Top.node.nid] = Len(heap) + 1]
  /\ ExecContinue(Attach(Append(heap, scope_tree), Top.loc, Len(heap) + 1),
                  <<Item("loop", Top.node, Top.loc)>> \o Tail(stack))
  /\ entry' = [entry EXCEPT ![Top.node.nid] = heap]
  /\ iters' = [iters EXCEPT ![Top.node.nid] = 0]
  /\ UNCHANGED <<tokens, text, phase, tree, global_scope, program_scope, data, out, checks>>

\* the frame While.execute hands to the statements of its body
WhileBodyScope(n, loc) == loc

\* one evaluation of the condition of the while statement of While.execute,
\* with result c: the body is executed, or the loop is left and local.child = None
WhileTest(n, loc, c) ==
  IF IsErr(c) THEN ExecAbort(c, heap) /\ UNCHANGED iters
  ELSE IF c.i = 1
  THEN /\ ExecContinue(heap, Stmts(n.nodes[4], WhileBodyScope(n, loc)) \o stack)
       /\ iters' = [iters EXCEPT ![n.nid] = @ + 1]
  ELSE ExecContinue(Attach(heap, loc, 0), Tail(stack)) /\ UNCHANGED iters

WhileCond ==
  /\ Running("exec", "loop")
  /\ WhileTest(Top.node, Top.loc, CondExecute(Top.node.nodes[2], heap))
  /\ UNCHANGED <<tokens, text, phase, tree, global_scope, program_scope, local, data, out,
                 checks, steps, entry>>

\* Program.execute returns
ExecuteEnd ==
  /\ halt = "" /\ phase = "exec" /\ stack = <<>>
  /\ phase' = "done"
  /\ UNCHANGED <<tokens, text, halt, err, tree, heap, global_scope, program_scope, local,
                 data, out, stack, checks, steps, entry, iters>>

(***************************************************************************)
(* Parser.print_tree: the text the print methods write.  Main.main does    *)
(* not call it (line 17 of Main.py is a comment); SpecPrint is Main.main   *)
(* with that call.                                                         *)
(***************************************************************************)
\* node.value of a member of the enumeration Core, which Parser.py imports and which
\* is not part of the source: the lexeme of the token
TokenValue(kind) ==
  CASE kind = "PROGRAM" -> <<"p", "r", "o", "g", "r", "a", "m">>
    [] kind = "BEGIN" -> <<"b", "e", "g", "i", "n">>
    [] kind = "END" -> <<"e", "n", "d">>
    [] kind = "INT" -> <<"i", "n", "t">>
    [] kind = "IF" -> <<"i", "f">>
    [] kind = "THEN" -> <<"t", "h", "e", "n">>
    [] kind = "ELSE" -> <<"e", "l", "s", "e">>
    [] kind = "ENDIF" -> <<"e", "n", "d", "i", "f">>
    [] kind = "WHILE" -> <<"w", "h", "i", "l", "e">>
    [] kind = "ENDWHILE" -> <<"e", "n", "d", "w", "h", "i", "l", "e">>
    [] kind = "INPUT" -> <<"i", "n", "p", "u", "t">>
    [] kind = "OUTPUT" -> <<"o", "u", "t", "p", "u", "t">>
    [] kind = "SEMICOLON" -> <<";">>
    [] kind = "COMMA" -> <<",">>
    [] kind = "ASSIGN" -> <<"=">>
    [] kind = "NEGATION" -> <<"!">>
    [] kind = "OR" -> <<"o", "r">>
    [] kind = "EQUAL" -> <<"=", "=">>
    [] kind = "LESS" -> <<"<">>
    [] kind = "LESSEQUAL" -> <<"<", "=">>
    [] kind = "ADD" -> <<"+">>
    [] kind = "SUB" -> <<"-">>
    [] kind = "MULT" -> <<"*">>
    [] kind = "LPAREN" -> <<"(">>
    [] kind = "RPAREN" -> <<")">>
    [] OTHER -> <<>>

\* for i in range(indent): print('\t', end='')
Tabs(indent) == Repeat(<<"\t">>, indent)

\* the text after which the for loop of a print method starts
PrintIndent(n, indent) ==
  IF n.type \in {"Decl", "Assign", "If", "While", "Input", "Output"} THEN Tabs(indent) ELSE <<>>

\* indent after the for loop of If.print / While.print has visited node
NextIndent(n, node, indent) ==
  IF n.type = "If" /\ IsTok(node, "THEN") THEN indent + 1
  ELSE IF n.type = "If" /\ IsTok(node, "ENDIF") THEN indent - 1
  ELSE IF n.type = "While" /\ IsTok(node, "BEGIN") THEN indent + 1
  ELSE IF n.type = "While" /\ IsTok(node, "ENDWHILE") THEN indent - 1
  ELSE indent

\* what the for loop of the print method of n writes for a node that is a Token
PrintToken(n, node, indent) ==
  CASE n.type = "Program" -> TokenValue(node.v) \o <<"\n">>
    [] n.type = "Decl" ->
         IF IsTok(node, "INT") THEN TokenValue(node.v) \o <<" ">>
         ELSE TokenValue(node.v) \o <<"\n">>
    [] n.type = "Assign" ->
         IF IsTok(node, "ASSIGN") THEN TokenValue(node.v) ELSE TokenValue(node.v) \o <<"\n">>
    [] n.type = "If" ->
         IF IsTok(node, "IF") THEN TokenValue(node.v) \o <<" ">>
         ELSE IF IsTok(node, "THEN") THEN TokenValue(node.v) \o <<"\n">>
         ELSE IF IsTok(node, "ELSE") \/ IsTok(node, "ENDIF")
         THEN Tabs(indent - 1) \o TokenValue(node.v) \o <<"\n">>
         ELSE <<>>
    [] n.type = "While" ->
         IF IsTok(node, "WHILE") THEN TokenValue(node.v) \o <<" ">>
         ELSE IF IsTok(node, "BEGIN") THEN <<" ">> \o TokenValue(node.v) \o <<"\n">>
         ELSE IF IsTok(node, "ENDWHILE") THEN Tabs(indent - 1) \o TokenValue(node.v) \o <<"\n">>
         ELSE <<>>
    [] n.type = "Input" ->
         IF IsTok(node, "INPUT") THEN TokenValue(node.v) \o <<" ">>
         ELSE TokenValue(node.v) \o <<"\n">>
    [] n.type = "Output" ->
         IF IsTok(node, "OUTPUT") THEN TokenValue(node.v) \o <<" ">>
         ELSE TokenValue(node.v) \o <<"\n">>
    [] n.type \in {"IdList", "Expr", "Term", "Factor", "Cond", "Cmpr"} -> TokenValue(node.v)
    [] OTHER -> <<>>

RECURSIVE print(_, _), PrintNodes(_, _, _)
\* the for loop of the print method of n from its i-th node on
PrintNodes(n, i, indent) ==
  IF i > Len(n.nodes) THEN <<>>
  ELSE (IF n.nodes[i].type = "Token" THEN PrintToken(n, n.nodes[i], indent)
        ELSE IF n.nodes[i].type = "name" THEN <<n.nodes[i].v>>
        ELSE IF n.nodes[i].type = "const" THEN PyStr(IntV(n.nodes[i].c))
        ELSE IF n.type = "Program" THEN print(n.nodes[i], 1)
        ELSE print(n.nodes[i], indent))
       \o PrintNodes(n, i + 1, NextIndent(n, n.nodes[i], indent))

\* X.print(indent) for a node of class X; the names of the model are single characters
print(n, indent) == PrintIndent(n, indent) \o PrintNodes(n, 1, indent)

\* the positions of the newlines of a text, the k-th of them, and the start of the line
\* that ends at position e
Newlines(cs) == {i \in 1..Len(cs) : cs[i] = "\n"}
LineEnd(cs, k) == CHOOSE e \in Newlines(cs) : Cardinality({i \in Newlines(cs) : i <= e}) = k
LineStart(cs, e) ==
  IF \E i \in Newlines(cs) : i < e
  THEN 1 + CHOOSE i \in Newlines(cs) : i < e /\ \A q \in Newlines(cs) : q < e => q <= i
  ELSE 1

\* the lines of a text that ends with a newline
Lines(cs) ==
  [k \in 1..Cardinality(Newlines(cs)) |->
     SubSeq(cs, LineStart(cs, LineEnd(cs, k)), LineEnd(cs, k) - 1)]

\* Parser.print_tree, called between build_tree and execute_tree
PrintTree ==
  /\ halt = "" /\ phase = "checked" /\ out = <<>>
  /\ out' = out \o Lines(print(tree, 0))
  /\ UNCHANGED <<tokens, text, phase, halt, err, tree, heap, global_scope, program_scope,
                 local, data, stack, checks, steps, entry, iters>>

Next ==
  \/ Parse
  \/ SemanticsStart \/ SemBegin \/ SemDecl \/ SemAssign \/ SemInput \/ SemOutput
  \/ SemIf \/ SemWhile \/ SemBlockEnd \/ SemanticsEnd
  \/ ExecuteTree \/ ExecBegin \/ ExecDecl \/ ExecAssign \/ ExecInput \/ ExecOutput
  \/ IfExecute \/ IfEnd \/ WhileExecute \/ WhileCond \/ ExecuteEnd

\* Main.main: build_tree, then execute_tree
Spec == Init /\ [][Next]_vars

\* Main.main with the call of print_tree of its line 17
SpecPrint == Init /\ [][Next \/ PrintTree]_vars

\* Main.main with Program.semantics called a second time after the first returned
SpecRecheck == Init /\ [][Next \/ SemanticsAgain]_vars

(***************************************************************************)
(* Vocabulary of the properties.                                           *)
(***************************************************************************)
RECURSIVE Names(_)
\* the identifiers that occur under a node
Names(n) ==
  IF n.type = "Id" THEN {IdName(n)}
  ELSE UNION {Names(n.nodes[j]) : j \in 1..Len(n.nodes)}

RECURSIVE Targets(_)
\* the identifiers some Assign or Input under a node writes
Targets(n) ==
  CASE n.type = "Assign" -> {IdName(n.nodes[1])}
    [] n.type = "Input" -> {IdName(n.nodes[2])}
    [] OTHER -> UNION {Targets(n.nodes[j]) : j \in 1..Len(n.nodes)}

\* the statements directly in the body of an If or While
BodyStmts(n) == {BlockItems(n.nodes, 1, 0)[j].node : j \in 1..Len(BlockItems(n.nodes, 1, 0))}
\* the names the body of an If or While declares / assigns directly
BlockDecls(n) == UNION {Names(st) : st \in {b \in BodyStmts(n) : b.type = "Decl"}}
BlockAssigns(n) == {IdName(st.nodes[1]) : st \in {b \in BodyStmts(n) : b.type = "Assign"}}

RECURSIVE Chain(_, _)
\* the attached frames, root first
Chain(h, f) == IF h[f].child = 0 THEN <<f>> ELSE <<f>> \o Chain(h, h[f].child)

\* the innermost attached frame whose mapping contains var, 0 when none does
Innermost(h, var) ==
  LET c == Chain(h, global_scope)
      at == {j \in 1..Len(c) : var \in DOMAIN h[c[j]].dict}
  IN IF at = {} THEN 0 ELSE c[CHOOSE j \in at : \A q \in at : q <= j]

\* the expression a statement reads, and the heap it is read in by the check pass
ReadExpr(n) ==
  CASE n.type = "Output" -> n.nodes[2]
    [] n.type = "Assign" -> n.nodes[3]
    [] n.type \in {"If", "While"} -> n.nodes[2]
    [] OTHER -> TokNode("ERROR")
CheckHeap(it) ==
  IF it.node.type \in {"If", "While"} THEN Attach(heap, it.loc, local[it.node.nid]) ELSE heap

\* the run is executing and about to run the statement of class type
Executing(type) == AtStmt("exec", type) /\ steps < MaxSteps

(***************************************************************************)
(* C1.  Once the semantic pass has accepted a program, the executor never  *)
(* stops because an identifier resolves to no attached frame or because a  *)
(* declaration finds its name already in the frame it declares into.       *)
(***************************************************************************)
C1_ExecutionAgreesWithCheck ==
  ~(phase = "exec" /\ halt = "exit" /\ err \in {"UndeclaredVariable", "DuplicateDeclaration"})

(***************************************************************************)
(* C2.  When the body of an If or While that declares a name already       *)
(* declared in an enclosing frame has been left, the name resolves to the  *)
(* enclosing declaration again, with the value it had when the block was   *)
(* entered.                                                                *)
(***************************************************************************)
Restored(n, h0, h1) ==
  \A v \in BlockDecls(n) :
    dfs_scope(h0, global_scope, v) # 0 =>
      /\ dfs_scope(h1, global_scope, v) = dfs_scope(h0, global_scope, v)
      /\ h1[dfs_scope(h0, global_scope, v)].dict[v] = h0[dfs_scope(h0, global_scope, v)].dict[v]

C2_ShadowRestored ==
  [][(halt = "" /\ phase = "exec" /\ stack # <<>> /\ Top.op \in {"end", "loop"}
      /\ halt' = "" /\ stack' = Tail(stack))
     => Restored(Top.node, entry[Top.node.nid], heap')]_vars

(***************************************************************************)
(* C3.  A While whose body declares a variable and assigns it runs its     *)
(* second and later iterations without error.                              *)
(***************************************************************************)
C3_LoopIterationsRun ==
  \A j \in 1..Len(stack) :
    (/\ phase = "exec"
     /\ stack[j].op = "loop"
     /\ iters[stack[j].node.nid] >= 2
     /\ BlockDecls(stack[j].node) \cap BlockAssigns(stack[j].node) # {})
    => halt = ""

(***************************************************************************)
(* C4.  Every execution of an If node starts with a frame that did not     *)
(* exist before, is empty, has no child and is the child of the frame the  *)
(* If runs in; when the If finishes the frame is no longer in the chain.   *)
(***************************************************************************)
C4_IfFrameIsFresh ==
  [][/\ (Executing("If") /\ steps' = steps + 1) =>
          /\ local'[Top.node.nid] \notin 1..Len(heap)
          /\ heap'[local'[Top.node.nid]] = scope_tree
          /\ heap'[Top.loc].child = local'[Top.node.nid]
     /\ (Running("exec", "end") /\ stack' = Tail(stack)) =>
          /\ heap'[Top.loc].child = 0
          /\ \A j \in 1..Len(Chain(heap', global_scope)) :
               Chain(heap', global_scope)[j] # local[Top.node.nid]]_vars

\* an If inside a loop is entered again: its frame is empty although the frame
\* of its previous execution holds a value for the variable it declares
C4_Witness ==
  /\ AtStmt("exec", "Decl")
  /\ Len(stack) > 2
  /\ stack[3].op = "end"
  /\ Top.loc = local[stack[3].node.nid]
  /\ heap[Top.loc] = scope_tree
  /\ \E f \in (program_scope + 1)..(Top.loc - 1) :
       /\ "y" \in DOMAIN heap[f].dict
       /\ heap[f].dict["y"].k = "int"

(***************************************************************************)
(* C5.  A second run of the semantic pass on the same tree, after a first  *)
(* run that succeeded, succeeds too.                                       *)
(***************************************************************************)
C5_RecheckSameVerdict == ~(checks = 2 /\ halt # "")

(***************************************************************************)
(* C6.  The semantic pass stops on a statement that reads an identifier    *)
(* which resolves to no attached frame, or whose status is still "not yet  *)
(* set" while nothing in the program assigns or inputs it.                 *)
(***************************************************************************)
BadRead(v, h) ==
  \/ dfs_scope(h, global_scope, v) = 0
  \/ /\ dfs_scope(h, global_scope, v) # 0
     /\ h[dfs_scope(h, global_scope, v)].dict[v] = BoolV(FALSE)
     /\ v \notin Targets(tree)

C6_CheckRejectsBadReads ==
  [][(/\ Running("check", "stmt")
      /\ \E v \in Names(ReadExpr(Top.node)) : BadRead(v, CheckHeap(Top)))
     => halt' = "exit"]_vars

(***************************************************************************)
(* C7.  Executing an output or an assignment whose expression reads a      *)
(* variable that is declared but unset ends the run: no line is printed,   *)
(* nothing is stored, the lines printed before stay; and when nothing else *)
(* is wrong with the statement the run ends by the sys.exit of that read.  *)
(***************************************************************************)
Unset(v, h) == dfs_scope(h, global_scope, v) # 0 /\ h[dfs_scope(h, global_scope, v)].dict[v] = None
IntOrUnset(v, h) ==
  /\ dfs_scope(h, global_scope, v) # 0
  /\ h[dfs_scope(h, global_scope, v)].dict[v].k \in {"int", "none"}

C7_UnsetReadAborts ==
  [][(/\ Executing("Output") \/ Executing("Assign")
      /\ steps' = steps + 1
      /\ \E v \in Names(ReadExpr(Top.node)) : Unset(v, heap))
     => /\ halt' # ""
        /\ out' = out
        /\ heap' = heap
        /\ stack' = stack
        /\ (\A v \in Names(Top.node) : IntOrUnset(v, heap))
             => halt' = "exit" /\ err' = "UninitializedVariable"]_vars

\* the run ended at the read of the unset y of "output x + y", after "output x" printed 3
C7_Witness ==
  /\ phase = "exec" /\ halt = "exit" /\ err = "UninitializedVariable"
  /\ Top.node.type = "Output"
  /\ "y" \in Names(Top.node)
  /\ out = << <<"3">> >>

(***************************************************************************)
(* C8.  + and - associate to the right and bind weaker than *: the line    *)
(* printed for "output a o1 b o2 c" is the value of a o1 (b o2 c) read     *)
(* with that precedence; 2 - 3 - 4 prints 3, and x * 2 + 1 with x = 3      *)
(* prints 7.                                                               *)
(***************************************************************************)
Arith(o, a, b) == IF o = "ADD" THEN a + b ELSE IF o = "SUB" THEN a - b ELSE a * b
\* the value of a o1 b o2 c
RightValue(a, o1, b, o2, c) ==
  IF o1 = "MULT" /\ o2 # "MULT" THEN Arith(o2, a * b, c)
  ELSE Arith(o1, a, Arith(o2, b, c))

C8_RightAssociative ==
  /\ \A a \in 2..4, b \in 2..4, c \in 2..4,
        o1 \in {"ADD", "SUB", "MULT"}, o2 \in {"ADD", "SUB", "MULT"} :
       (phase = "done" /\ tokens = ExprProgram(a, o1, b, o2, c))
         => out = << PyStr(IntV(RightValue(a, o1, b, o2, c))) >>
  /\ (phase = "done" /\ tokens = ScenarioArith) => out = << <<"3">>, <<"-", "4">> >>
  /\ (phase = "done" /\ tokens = Scenario2) => out = << <<"7">> >>

C8_Witness ==
  phase = "done" /\ tokens = ExprProgram(2, "SUB", 3, "SUB", 4) /\ out = << <<"3">> >>

(***************************************************************************)
(* C9.  With the data file "0", the program "input x; while x < 3 begin    *)
(* x = x + 1; endwhile output x;" runs to its end without error and        *)
(* prints 3.                                                               *)
(***************************************************************************)
C9_InputIsInteger ==
  (tokens = Scenario3 /\ text = <<"0">>)
    => /\ halt = ""
       /\ phase = "done" => out = << <<"3">> >>

(***************************************************************************)
(* C10.  An executed input whose target resolves removes the front of a    *)
(* non-empty queue and stores it in the innermost attached frame that      *)
(* declares the target, changing nothing else; on an empty queue it ends   *)
(* the run and changes no frame.                                           *)
(***************************************************************************)
C10_InputTakesFront ==
  [][(/\ Executing("Input")
      /\ steps' = steps + 1
      /\ Innermost(heap, IdName(Top.node.nodes[2])) # 0)
     => IF data # <<>>
        THEN /\ halt' = ""
             /\ data' = Tail(data)
             /\ heap' = FrameSet(heap, Innermost(heap, IdName(Top.node.nodes[2])),
                                 IdName(Top.node.nodes[2]), Head(data))
        ELSE /\ halt' = "exit" /\ err' = "InputExhausted"
             /\ heap' = heap
             /\ data' = data]_vars

\* "input x" took "7" from the queue "7 8" into the x of the root frame
C10_Witness ==
  /\ phase = "exec"
  /\ data = << StrV(<<"8">>) >>
  /\ "x" \in DOMAIN heap[global_scope].dict
  /\ heap[global_scope].dict["x"] = StrV(<<"7">>)

(***************************************************************************)
(* C11.  While a While statement is executing, the frame made for it stays *)
(* the child of the frame the statement runs in, whatever its body         *)
(* executes, until its condition is false.                                 *)
(***************************************************************************)
C11_WhileFrameStaysAttached ==
  \A j \in 1..Len(stack) :
    (phase = "exec" /\ halt = "" /\ stack[j].op = "loop")
      => heap[stack[j].loc].child = local[stack[j].node.nid]

(***************************************************************************)
(* C12.  Started at the root, dfs_scope returns the deepest frame of the   *)
(* attached chain whose mapping contains the name, and none exactly when   *)
(* no frame of the chain contains it; a frame that is not attached is      *)
(* never returned.                                                         *)
(***************************************************************************)
ChainSet(h) == {Chain(h, global_scope)[j] : j \in 1..Len(Chain(h, global_scope))}

C12_ResolveDeepest ==
  \A v \in {"x", "y", "z"} :
    /\ dfs_scope(heap, global_scope, v) = Innermost(heap, v)
    /\ dfs_scope(heap, global_scope, v) = 0
         <=> \A f \in ChainSet(heap) : v \notin DOMAIN heap[f].dict
    /\ dfs_scope(heap, global_scope, v) # 0
         => dfs_scope(heap, global_scope, v) \in ChainSet(heap)

\* four attached frames, x declared in at least three of them and resolved to the
\* last one, while y is only in a frame that is no longer attached
C12_Witness ==
  /\ phase = "exec"
  /\ Len(Chain(heap, global_scope)) = 4
  /\ Cardinality({f \in ChainSet(heap) : "x" \in DOMAIN heap[f].dict}) >= 3
  /\ dfs_scope(heap, global_scope, "x") = Chain(heap, global_scope)[4]
  /\ dfs_scope(heap, global_scope, "y") = 0
  /\ \E f \in (global_scope + 1)..Len(heap) : "y" \in DOMAIN heap[f].dict

(***************************************************************************)
(* C13.  Execution shares no frame with the check pass: it starts with a   *)
(* new empty root frame and a new empty program frame, no frame the check  *)
(* pass used is ever in the chain of the execution, and no step of the     *)
(* execution changes a frame of the check pass.                            *)
(***************************************************************************)
C13_PassesShareNoFrames ==
  [][/\ (phase = "checked" /\ phase' = "exec") =>
          /\ global_scope' \notin 1..Len(heap)
          /\ program_scope' \notin 1..Len(heap)
          /\ global_scope' # program_scope'
          /\ heap'[global_scope'] = scope_tree
          /\ heap'[program_scope'] = scope_tree
          /\ \A f \in 1..Len(heap) : heap'[f] = heap[f]
     /\ phase' = "exec" => \A f \in ChainSet(heap)' : f >= global_scope'
     /\ phase = "exec" => \A f \in 1..(global_scope - 1) : heap'[f] = heap[f]]_vars

\* the check pass marked x as set in one of its frames, and the execution, inside a
\* block, still has the x of its own root frame unset
C13_Witness ==
  /\ phase = "exec"
  /\ Len(Chain(heap, global_scope)) = 3
  /\ \E f \in 1..(global_scope - 1) :
       "x" \in DOMAIN heap[f].dict /\ heap[f].dict["x"] = BoolV(TRUE)
  /\ "x" \in DOMAIN heap[global_scope].dict
  /\ heap[global_scope].dict["x"] = None

(***************************************************************************)
(* C14.  No token sequence whose condition lacks a comparison operator     *)
(* between its two expressions is accepted by the parser: the tree handed  *)
(* to the check pass and the executor has no Cmpr node without one of      *)
(* ==, <, <=.                                                              *)
(***************************************************************************)
HasOperator(n) ==
  \E j \in 1..Len(n.nodes) :
    IsTok(n.nodes[j], "EQUAL") \/ IsTok(n.nodes[j], "LESS") \/ IsTok(n.nodes[j], "LESSEQUAL")

RECURSIVE BareCmpr(_)
\* some Cmpr node under n has no comparison operator
BareCmpr(n) ==
  \/ n.type = "Cmpr" /\ ~HasOperator(n)
  \/ \E j \in 1..Len(n.nodes) : BareCmpr(n.nodes[j])

C14_CmprNeedsOperator ==
  /\ ~BareCmpr(tree)
  /\ tokens = ScenarioNoCmpr => phase = "init"

(***************************************************************************)
(* C15.  Checking "target = expr;" marks the target as set in the frame    *)
(* dfs_scope returns for it and changes the status of no other identifier, *)
(* in particular of none that occurs only in expr.                         *)
(***************************************************************************)
AssignTarget == IdName(Top.node.nodes[1])

C15_AssignMarksTargetOnly ==
  [][AtStmt("check", "Assign") =>
       /\ \A f \in 1..Len(heap) : \A v \in DOMAIN heap[f].dict :
            (v # AssignTarget \/ f # dfs_scope(heap, global_scope, AssignTarget))
              => heap'[f].dict[v] = heap[f].dict[v]
       /\ (dfs_scope(heap, global_scope, AssignTarget) # 0 /\ halt' = "")
            => heap'[dfs_scope(heap, global_scope, AssignTarget)].dict[AssignTarget]
                 = BoolV(TRUE)]_vars
====
